---- MODULE Spec2Model ----
(***************************************************************************)
(* Model of the celery.node client (src/src/app/client.ts): the task       *)
(* message codec createTaskMessage and the Client operations createTask,   *)
(* delay and publish, together with the collaborators publish relies on:   *)
(* the readiness gate of Base (isReady), the promise reaction queue of the *)
(* JavaScript run time, the Broker capability and the host's treatment of  *)
(* a rejected promise nobody handles, which by default ends the process.   *)
(*                                                                         *)
(* A JavaScript string that holds JSON text is modelled as the sequence of *)
(* its lexemes: {"id":"a","args":[1]} is                                   *)
(*   << "{", "\"id\"", ":", "\"a\"", ",", "\"args\"", ":", "[", "1", "]",  *)
(*      "}" >>.                                                            *)
(***************************************************************************)
EXTENDS Integers, Sequences, FiniteSets, TLC

VARIABLES
    ready,        \* Base: the readiness gate (FALSE = NOT_READY, TRUE = READY)
    tasks,        \* the Task objects createTask has allocated
    idCounter,    \* number of ids v4() has handed out
    calls,        \* one record per publish call, in call order
    pc,           \* per call: where its wait-then-publish chain stands
    waiters,      \* reactions registered on a pending isReady() promise, FIFO
    microtasks,   \* promise reaction jobs ready to run, FIFO
    brokerLog,    \* what Broker.publish has been invoked with, in order
    unhandled,    \* the rejections the host has reported or raised, in order
    rejections,   \* rejected promises without a handler the host has yet to
                  \* process, in the order they were rejected
    hostMode,     \* what the host does with such a promise (see HostModes)
    ending,       \* the host has raised an uncaught exception and ends the
                  \* process: no reaction runs and no promise settles any
                  \* more; only the application's listeners for the
                  \* exception and for exit still run, and may call the Client
    passLeft,     \* the host is in a pass over the pending rejections and
                  \* calls the application's listener for each: how many of
                  \* them the pass has yet to process (0: no such pass)
    heap,         \* per call: the args and kwargs objects it was given, as
                  \* they are now (the caller keeps them and may change them)
    codecIn,      \* inputs of a direct createTaskMessage call
    codecOut      \* its outcome

vars == << ready, tasks, idCounter, calls, pc, waiters, microtasks,
           brokerLog, unhandled, rejections, hostMode, ending, passLeft, heap,
           codecIn, codecOut >>

clientVars == << ready, tasks, idCounter, calls, pc, waiters, microtasks,
                 brokerLog, unhandled, rejections, hostMode, ending, passLeft, heap >>

(***************************************************************************)
(* Bounds                                                                  *)
(***************************************************************************)
MaxCalls == 2

(***************************************************************************)
(* JavaScript values                                                       *)
(***************************************************************************)
Undefined == [t |-> "undefined"]

Str(s) == [t |-> "string", s |-> s]

\* An array of numbers.
Arr(items) == [t |-> "array", items |-> items]

\* An object with number-valued properties, in insertion order.
Obj(entries) == [t |-> "object", entries |-> entries]

\* An array that contains itself: JSON.stringify cannot serialize it.
CyclicArr == [t |-> "cyclic"]

\* a || b
Or(a, b) == IF a.t = "undefined" THEN b ELSE a

TaskNames == {"", "tasks.add"}

ArgsValues == {Undefined, Arr(<< >>), Arr(<<1, 2>>), Arr(<<7>>), CyclicArr}

KwargsValues == {Undefined, Obj(<< >>), Obj(<< <<"x", 1>> >>),
                 Obj(<< <<"y", 2>>, <<"x", 1>> >>)}

\* The argument pairs the Client operations are driven with.
CallInputs == { <<Arr(<<1, 2>>), Undefined>>,
                <<Arr(<< >>), Obj(<< <<"x", 1>> >>)>>,
                <<CyclicArr, Obj(<< >>)>> }

\* The calls of delay the Client is driven with: a task name with an
\* argument pair of CallInputs.
CallRequests == { << "tasks.add", Arr(<<1, 2>>), Undefined >>,
                  << "", Arr(<< >>), Obj(<< <<"x", 1>> >>) >>,
                  << "tasks.add", CyclicArr, Obj(<< >>) >> }

(***************************************************************************)
(* uuid.v4: the n-th id it hands out.  Fresh by assumption.                *)
(***************************************************************************)
v4(n) == "uuid-" \o ToString(n)

Ids == {v4(n) : n \in 1..(MaxCalls + 1)}

(***************************************************************************)
(* JSON.stringify, on the values above                                     *)
(***************************************************************************)
Quote(s) == "\"" \o s \o "\""

RECURSIVE CommaSep(_)
CommaSep(parts) ==
    IF parts = << >> THEN << >>
    ELSE IF Len(parts) = 1 THEN parts[1]
    ELSE parts[1] \o <<",">> \o CommaSep(Tail(parts))

Serializable(v) == v.t # "cyclic"

ValueTokens(v) ==
    CASE v.t = "string" -> << Quote(v.s) >>
      [] v.t = "array"  ->
            <<"[">> \o CommaSep([i \in 1..Len(v.items) |-> << ToString(v.items[i]) >>])
                    \o <<"]">>
      [] v.t = "object" ->
            <<"{">> \o CommaSep([i \in 1..Len(v.entries) |->
                           << Quote(v.entries[i][1]), ":", ToString(v.entries[i][2]) >>])
                    \o <<"}">>

\* JSON.stringify of an object given as its properties <<key, value>> in
\* insertion order.  A property whose value is undefined is left out; a
\* cyclic value makes stringify throw a TypeError.
JSONstringify(props) ==
    LET kept == SelectSeq(props, LAMBDA p : p[2].t # "undefined")
    IN  IF \E i \in 1..Len(kept) : ~Serializable(kept[i][2])
        THEN [threw |-> TRUE, value |-> << >>]
        ELSE [threw |-> FALSE,
              value |-> <<"{">>
                        \o CommaSep([i \in 1..Len(kept) |->
                              << Quote(kept[i][1]), ":" >> \o ValueTokens(kept[i][2])])
                        \o <<"}">>]

(***************************************************************************)
(* createTaskMessage                                                       *)
(***************************************************************************)
createTaskMessage_swapped(id, taskName, args, kwargs) ==
    LET message == << <<"id", Str(taskName)>>,
                      <<"task", Str(id)>>,
                      <<"args", Or(args, Arr(<< >>))>>,
                      <<"kwargs", Or(kwargs, Obj(<< >>))>> >>
    IN  JSONstringify(message)

createTaskMessage_noDefaults(id, taskName, args, kwargs) ==
    LET message == << <<"id", Str(id)>>,
                      <<"task", Str(taskName)>>,
                      <<"args", args>>,
                      <<"kwargs", kwargs>> >>
    IN  JSONstringify(message)

createTaskMessage(id, taskName, args, kwargs) ==
    LET message == << <<"id", Str(id)>>,
                      <<"task", Str(taskName)>>,
                      <<"args", Or(args, Arr(<< >>))>>,
                      <<"kwargs", Or(kwargs, Obj(<< >>))>> >>
    IN  JSONstringify(message)

(***************************************************************************)
(* Collaborators of the Client                                             *)
(***************************************************************************)
\* this.backend
Backend == "backend"

\* new Task(client, name)
Task(name) == [client |-> "client", name |-> name]

\* new AsyncResult(taskId, backend)
AsyncResult(taskId, backend) == [taskId |-> taskId, backend |-> backend]

NoResult == [taskId |-> "", backend |-> ""]

\* Base.isReady(): the state of the promise it returns.
isReady == IF ready THEN "fulfilled" ELSE "pending"

(***************************************************************************)
(* Client.publish                                                          *)
(***************************************************************************)
\* const taskId = v4(): every call draws the next id of the generator.
NextTaskId_cached(counter) == v4(1)

NextTaskId(counter) == v4(counter + 1)

RoutingKey_byTask == "default"

\* The routing key of this.broker.publish('celery', message).
RoutingKey == "celery"

\* The reaction () => this.broker.publish('celery', message) of the call
\* job.call: what it invokes Broker.publish with.
BrokerCall_lazy(job) ==
    [routingKey |-> RoutingKey,
     message |-> createTaskMessage(calls[job.call].taskId, calls[job.call].task,
                                   heap[job.call].args, heap[job.call].kwargs).value,
     call |-> job.call]

BrokerCall(job) ==
    [routingKey |-> RoutingKey, message |-> job.message, call |-> job.call]

\* this.isReady().then(reaction): the reaction is queued as a job at once on
\* a fulfilled promise and registered, behind the earlier ones, on a pending
\* one.  Nothing is handed to the Broker here.
Dispatch_noWait(job) ==
    [waiters |-> waiters, microtasks |-> microtasks,
     brokerLog |-> Append(brokerLog, BrokerCall(job)), at |-> "sent"]

Dispatch_lifo(job) ==
    IF isReady = "fulfilled"
    THEN [waiters |-> waiters, microtasks |-> << job >> \o microtasks,
          brokerLog |-> brokerLog, at |-> "queued"]
    ELSE [waiters |-> << job >> \o waiters, microtasks |-> microtasks,
          brokerLog |-> brokerLog, at |-> "waiting"]

Dispatch_alwaysWait(job) ==
    [waiters |-> Append(waiters, job), microtasks |-> microtasks,
     brokerLog |-> brokerLog, at |-> "waiting"]

Dispatch_twice(job) ==
    IF isReady = "fulfilled"
    THEN [waiters |-> waiters, microtasks |-> microtasks \o << job, job >>,
          brokerLog |-> brokerLog, at |-> "queued"]
    ELSE [waiters |-> waiters \o << job, job >>, microtasks |-> microtasks,
          brokerLog |-> brokerLog, at |-> "waiting"]

Dispatch(job) ==
    IF isReady = "fulfilled"
    THEN [waiters |-> waiters, microtasks |-> Append(microtasks, job),
          brokerLog |-> brokerLog, at |-> "queued"]
    ELSE [waiters |-> Append(waiters, job), microtasks |-> microtasks,
          brokerLog |-> brokerLog, at |-> "waiting"]

\* What the host does with a rejected promise that has no handler, when it
\* comes to it in a pass over the pending rejections.  The Client installs
\* no listener and sets no mode, so which it is depends on the application
\* and on how the host was started.
\*   "throw":    it raises the rejection as an uncaught exception, which
\*               ends the process with exit code 1 (Node since version 15,
\*               no listener installed);
\*   "listener": it hands the rejection to the application's listener for
\*               unhandledRejection, which may call the Client, and the
\*               process goes on;
\*   "warn":     it prints a warning and the process goes on (Node before
\*               version 15, or --unhandled-rejections=warn, no listener);
\*   "none":     it drops the rejection without any report and the process
\*               goes on (--unhandled-rejections=none, no listener).
HostModes == {"throw", "listener", "warn", "none"}

\* The modes in which the host reports the rejection somewhere.
ReportingModes == {"throw", "listener", "warn"}

\* The modes in which the process goes on after an unhandled rejection.
LivingModes == {"listener", "warn", "none"}

\* The event loop runs and the host is not in a pass over the pending
\* rejections: reactions run and the gate, the timers and the Broker settle
\* their promises.
HostIdle == ~ending /\ passLeft = 0

\* The promise this.isReady().then(...) is neither returned nor given a
\* rejection handler: when it rejects, the rejection is left to the host.
DerivedRejection_caught(err) == [handled |-> TRUE, err |-> err]

DerivedRejection(err) == [handled |-> FALSE, err |-> err]

\* The host reports the rejection of call c when it comes to it.
Reports(c) == ~DerivedRejection(pc[c].err).handled /\ hostMode \in ReportingModes

\* What the host has made of the rejection of call c once it is through
\* with it.
Outcome(c) == IF Reports(c) THEN "reported" ELSE "ignored"

\* The report of the rejection of call c.
Report(c) == [call |-> c, err |-> DerivedRejection(pc[c].err).err]

\* The host is through with the rejections of the calls cs.
RECURSIVE MarkSettled(_, _)
MarkSettled(p, cs) ==
    IF cs = << >> THEN p
    ELSE MarkSettled([p EXCEPT ![Head(cs)].at = Outcome(Head(cs))], Tail(cs))

\* publish(task, args, kwargs), without what it leaves unchanged.  A throw of
\* createTaskMessage leaves publish before its return statement.
publish(task, args, kwargs) ==
    LET taskId == NextTaskId(idCounter)
        result == AsyncResult(taskId, Backend)
        built  == createTaskMessage(taskId, task.name, args, kwargs)
        c      == Len(calls) + 1
        d      == Dispatch([call |-> c, message |-> built.value])
        call   == [task |-> task.name, args |-> args, kwargs |-> kwargs,
                   taskId |-> taskId, readyAtCall |-> ready]
    IN  /\ Len(calls) < MaxCalls
        /\ idCounter' = idCounter + 1
        /\ IF built.threw
           THEN /\ calls' = Append(calls, call @@ [returned |-> FALSE,
                                   result |-> NoResult, thrown |-> "TypeError"])
                /\ pc' = Append(pc, [at |-> "threw", err |-> "none"])
                /\ UNCHANGED << waiters, microtasks, brokerLog >>
           ELSE /\ calls' = Append(calls, call @@ [returned |-> TRUE,
                                   result |-> result, thrown |-> "none"])
                /\ pc' = Append(pc, [at |-> d.at, err |-> "none"])
                /\ waiters' = d.waiters
                /\ microtasks' = d.microtasks
                /\ brokerLog' = d.brokerLog
        /\ heap' = Append(heap, [args |-> args, kwargs |-> kwargs])
        /\ UNCHANGED << ready, unhandled, rejections, hostMode, ending, passLeft,
                        codecIn, codecOut >>

(***************************************************************************)
(* Operations of the Client and of Task                                    *)
(***************************************************************************)
createTask_generatesId(name) ==
    /\ tasks' = tasks \cup {Task(name)}
    /\ idCounter' = (IF Task(name) \in tasks THEN idCounter ELSE idCounter + 1)
    /\ UNCHANGED << ready, calls, pc, waiters, microtasks, brokerLog, unhandled,
                    rejections, hostMode, ending, passLeft, heap, codecIn, codecOut >>

\* Client.createTask(name)
createTask(name) ==
    /\ tasks' = tasks \cup {Task(name)}
    /\ UNCHANGED << ready, idCounter, calls, pc, waiters, microtasks, brokerLog,
                    unhandled, rejections, hostMode, ending, passLeft, heap,
                    codecIn, codecOut >>

\* Task.delay(args, kwargs): forwards to the owning Client's publish.
TaskDelay(task, args, kwargs) ==
    /\ task \in tasks
    /\ publish(task, args, kwargs)
    /\ UNCHANGED tasks

delay_dropsKwargs(name, args, kwargs) ==
    /\ publish(Task(name), args, Undefined)
    /\ tasks' = tasks \cup {Task(name)}

\* Client.delay(name, args, kwargs) == this.createTask(name).delay(args, kwargs)
delay(name, args, kwargs) ==
    /\ publish(Task(name), args, kwargs)
    /\ tasks' = tasks \cup {Task(name)}

(***************************************************************************)
(* The environment: readiness, the reaction queue, the Broker, the host    *)
(***************************************************************************)
SetAt(c, at, err) == [pc EXCEPT ![c] = [at |-> at, err |-> err]]

RECURSIVE MarkQueued(_, _)
MarkQueued(p, jobs) ==
    IF jobs = << >> THEN p
    ELSE MarkQueued([p EXCEPT ![Head(jobs).call].at = "queued"], Tail(jobs))

\* The connections become usable: every pending isReady() promise is
\* fulfilled, and the reactions registered on them are queued in the order
\* of their registration.
BecomeReady ==
    /\ HostIdle
    /\ ~ready
    /\ ready' = TRUE
    /\ microtasks' = microtasks \o waiters
    /\ waiters' = << >>
    /\ pc' = MarkQueued(pc, waiters)
    /\ UNCHANGED << tasks, idCounter, calls, brokerLog, unhandled, rejections,
                    hostMode, ending, passLeft, heap, codecIn, codecOut >>

\* A bounded readiness wait runs out: that isReady() promise is rejected, and
\* with it the promise derived by then().
ReadyTimeout(i) ==
    /\ HostIdle
    /\ ~ready
    /\ i \in 1..Len(waiters)
    /\ waiters' = SubSeq(waiters, 1, i - 1) \o SubSeq(waiters, i + 1, Len(waiters))
    /\ pc' = SetAt(waiters[i].call, "rejected", "NotReadyTimeout")
    /\ rejections' = Append(rejections, waiters[i].call)
    /\ UNCHANGED << ready, tasks, idCounter, calls, microtasks, brokerLog,
                    unhandled, hostMode, ending, passLeft, heap, codecIn, codecOut >>

\* The first queued reaction runs and invokes Broker.publish, which takes the
\* message and returns a pending completion.
RunReaction ==
    /\ HostIdle
    /\ microtasks # << >>
    /\ microtasks' = Tail(microtasks)
    /\ brokerLog' = Append(brokerLog, BrokerCall(Head(microtasks)))
    /\ pc' = SetAt(Head(microtasks).call, "sent", "none")
    /\ UNCHANGED << ready, tasks, idCounter, calls, waiters, unhandled,
                    rejections, hostMode, ending, passLeft, heap, codecIn, codecOut >>

RunReactionThrows_poisonsQueue ==
    /\ HostIdle
    /\ microtasks # << >>
    /\ microtasks' = << >>
    /\ brokerLog' = Append(brokerLog, BrokerCall(Head(microtasks)))
    /\ pc' = SetAt(Head(microtasks).call, "rejected", "TransportError")
    /\ rejections' = Append(rejections, Head(microtasks).call)
    /\ UNCHANGED << ready, tasks, idCounter, calls, waiters, unhandled,
                    hostMode, ending, passLeft, heap, codecIn, codecOut >>

\* The first queued reaction runs and invokes Broker.publish, which throws at
\* once: the derived promise is rejected.
RunReactionThrows ==
    /\ HostIdle
    /\ microtasks # << >>
    /\ microtasks' = Tail(microtasks)
    /\ brokerLog' = Append(brokerLog, BrokerCall(Head(microtasks)))
    /\ pc' = SetAt(Head(microtasks).call, "rejected", "TransportError")
    /\ rejections' = Append(rejections, Head(microtasks).call)
    /\ UNCHANGED << ready, tasks, idCounter, calls, waiters, unhandled,
                    hostMode, ending, passLeft, heap, codecIn, codecOut >>

\* The Broker completes a publish.
BrokerAck(c) ==
    /\ HostIdle
    /\ c \in 1..Len(pc)
    /\ pc[c].at = "sent"
    /\ pc' = SetAt(c, "delivered", "none")
    /\ UNCHANGED << ready, tasks, idCounter, calls, waiters, microtasks,
                    brokerLog, unhandled, rejections, hostMode, ending, passLeft, heap,
                    codecIn, codecOut >>

\* The Broker fails a publish: its completion, and the derived promise that
\* follows it, are rejected.
BrokerNack(c) ==
    /\ HostIdle
    /\ c \in 1..Len(pc)
    /\ pc[c].at = "sent"
    /\ pc' = SetAt(c, "rejected", "TransportError")
    /\ rejections' = Append(rejections, c)
    /\ UNCHANGED << ready, tasks, idCounter, calls, waiters, microtasks,
                    brokerLog, unhandled, hostMode, ending, passLeft, heap,
                    codecIn, codecOut >>

\* Mode "listener".  The reaction queue has drained and promises rejected
\* without a handler are pending: the host starts a pass over those pending
\* now.  The pass may hold rejected promises of the application ahead of the
\* Client's; the listener called for them may call the Client before the
\* host has come to the first rejection of the Client.
BeginRejectionPass ==
    /\ HostIdle
    /\ hostMode = "listener"
    /\ microtasks = << >>
    /\ rejections # << >>
    /\ passLeft' = Len(rejections)
    /\ UNCHANGED << ready, tasks, idCounter, calls, pc, waiters, microtasks,
                    brokerLog, unhandled, rejections, hostMode, ending, heap,
                    codecIn, codecOut >>

\* Mode "listener".  The host comes to the next rejected promise of its
\* pass, the oldest one pending, and hands it to the listener.  The reaction
\* queue is not drained between two rejections of a pass: a reaction the
\* listener has had queued meanwhile runs after the pass.
SettleRejection ==
    /\ ~ending
    /\ passLeft > 0
    /\ LET c == Head(rejections)
       IN  /\ pc' = SetAt(c, Outcome(c), pc[c].err)
           /\ unhandled' = (IF Reports(c) THEN Append(unhandled, Report(c))
                            ELSE unhandled)
    /\ rejections' = Tail(rejections)
    /\ passLeft' = passLeft - 1
    /\ UNCHANGED << ready, tasks, idCounter, calls, waiters, microtasks,
                    brokerLog, hostMode, ending, heap, codecIn, codecOut >>

\* Modes "warn" and "none".  The reaction queue has drained: the host makes
\* its pass over the pending rejections, oldest first, and prints a warning
\* for each or drops each.  No code of the application runs in this pass.
SettleAllRejections ==
    /\ HostIdle
    /\ hostMode \in {"warn", "none"}
    /\ microtasks = << >>
    /\ rejections # << >>
    /\ pc' = MarkSettled(pc, rejections)
    /\ unhandled' = unhandled \o
                       SelectSeq([i \in 1..Len(rejections) |-> Report(rejections[i])],
                                 LAMBDA e : Reports(e.call))
    /\ rejections' = << >>
    /\ UNCHANGED << ready, tasks, idCounter, calls, waiters, microtasks,
                    brokerLog, hostMode, ending, passLeft, heap,
                    codecIn, codecOut >>

\* Mode "throw".  The reaction queue has drained: the host comes to the
\* oldest pending rejection and raises it as an uncaught exception.  The
\* exception is reported and the process ends: the younger rejections stay
\* unprocessed, and whatever waits or is queued never runs.
RaiseRejection ==
    /\ HostIdle
    /\ hostMode = "throw"
    /\ microtasks = << >>
    /\ rejections # << >>
    /\ LET c == Head(rejections)
       IN  /\ pc' = SetAt(c, Outcome(c), pc[c].err)
           /\ unhandled' = (IF Reports(c) THEN Append(unhandled, Report(c))
                            ELSE unhandled)
           /\ ending' = Reports(c)
    /\ rejections' = Tail(rejections)
    /\ UNCHANGED << ready, tasks, idCounter, calls, waiters, microtasks,
                    brokerLog, hostMode, passLeft, heap, codecIn, codecOut >>

\* Mode "throw".  The reaction queue has drained and the host raises a
\* rejected promise of the application's own, which it meets before any of
\* the Client's: the process ends with the Client's rejections unreported.
ApplicationRejectionRaised ==
    /\ HostIdle
    /\ hostMode = "throw"
    /\ microtasks = << >>
    /\ ending' = TRUE
    /\ UNCHANGED << ready, tasks, idCounter, calls, pc, waiters, microtasks,
                    brokerLog, unhandled, rejections, hostMode, passLeft, heap,
                    codecIn, codecOut >>

\* Any mode.  An exception leaves the turn of the application that runs
\* uncaught: the TypeError publish threw and its caller did not catch, or an
\* exception of the application's own after a call of the Client returned,
\* in a turn of the event loop or in the listener the host's pass called.
\* The host ends the process whatever its mode for rejections is; the
\* reactions still queued never run and the pass is not continued.
UncaughtException ==
    /\ ~ending
    /\ ending' = TRUE
    /\ UNCHANGED << ready, tasks, idCounter, calls, pc, waiters, microtasks,
                    brokerLog, unhandled, rejections, hostMode, passLeft, heap,
                    codecIn, codecOut >>

(***************************************************************************)
(* Specification of the Client                                             *)
(***************************************************************************)
NotCalled == [called |-> FALSE, threw |-> FALSE, value |-> << >>]

Init ==
    /\ ready = FALSE
    /\ tasks = {}
    /\ idCounter = 0
    /\ calls = << >>
    /\ pc = << >>
    /\ waiters = << >>
    /\ microtasks = << >>
    /\ brokerLog = << >>
    /\ unhandled = << >>
    /\ rejections = << >>
    /\ hostMode \in HostModes
    /\ ending = FALSE
    /\ passLeft = 0
    /\ heap = << >>
    /\ codecIn = << v4(1), "tasks.add", Undefined, Undefined >>
    /\ codecOut = NotCalled

Next ==
    \/ \E name \in TaskNames : createTask(name)
    \/ \E task \in tasks, req \in CallRequests :
          task.name = req[1] /\ TaskDelay(task, req[2], req[3])
    \/ \E req \in CallRequests : delay(req[1], req[2], req[3])
    \/ BecomeReady
    \/ \E i \in 1..MaxCalls : ReadyTimeout(i)
    \/ RunReaction
    \/ RunReactionThrows
    \/ \E c \in 1..MaxCalls : BrokerAck(c)
    \/ \E c \in 1..MaxCalls : BrokerNack(c)
    \/ BeginRejectionPass
    \/ SettleRejection
    \/ SettleAllRejections
    \/ RaiseRejection
    \/ ApplicationRejectionRaised
    \/ UncaughtException

Spec == Init /\ [][Next]_vars

(***************************************************************************)
(* The Client with a caller that changes, in place, the args array or the  *)
(* kwargs object it passed, while the call's reaction has not yet run      *)
(***************************************************************************)
\* args.push(9)
Pushed(v) == Arr(Append(v.items, 9))

\* kwargs.z = 3
WithKey(v) == Obj(Append(v.entries, << "z", 3 >>))

\* The caller changes what it passed to call c: the array and, if it passed
\* one, the object.
MutateArguments(c) ==
    /\ c \in 1..Len(calls)
    /\ pc[c].at \in {"waiting", "queued"}
    /\ heap[c] = [args |-> calls[c].args, kwargs |-> calls[c].kwargs]
    /\ heap[c].args.t = "array"
    /\ heap' = [heap EXCEPT ![c] =
                  [args   |-> Pushed(heap[c].args),
                   kwargs |-> IF heap[c].kwargs.t = "object"
                              THEN WithKey(heap[c].kwargs) ELSE heap[c].kwargs]]
    /\ UNCHANGED << ready, tasks, idCounter, calls, pc, waiters, microtasks,
                    brokerLog, unhandled, rejections, hostMode, ending, passLeft,
                    codecIn, codecOut >>

NextMutate ==
    \/ Next
    \/ \E c \in 1..MaxCalls : MutateArguments(c)

SpecMutate == Init /\ [][NextMutate]_vars

(***************************************************************************)
(* Specification of the codec alone: createTaskMessage on every input      *)
(***************************************************************************)
InitCodec ==
    /\ ready = FALSE
    /\ tasks = {}
    /\ idCounter = 0
    /\ calls = << >>
    /\ pc = << >>
    /\ waiters = << >>
    /\ microtasks = << >>
    /\ brokerLog = << >>
    /\ unhandled = << >>
    /\ rejections = << >>
    /\ hostMode \in HostModes
    /\ ending = FALSE
    /\ passLeft = 0
    /\ heap = << >>
    /\ codecIn \in Ids \X TaskNames \X ArgsValues \X KwargsValues
    /\ codecOut = NotCalled

CallCreateTaskMessage ==
    /\ ~codecOut.called
    /\ codecOut' = [called |-> TRUE] @@
                   createTaskMessage(codecIn[1], codecIn[2], codecIn[3], codecIn[4])
    /\ UNCHANGED << codecIn, clientVars >>

NextCodec == CallCreateTaskMessage

SpecCodec == InitCodec /\ [][NextCodec]_vars

(***************************************************************************)
(* JSON.parse, as a consumer of the wire format reads a message back       *)
(***************************************************************************)
KnownStrings == TaskNames \cup Ids \cup {"id", "task", "args", "kwargs", "x", "y", "z"}

\* Every string literal a message can hold, with the string it denotes.
QuotedStrings == {<< Quote(s), s >> : s \in KnownStrings}

Unquote(tok) == (CHOOSE p \in QuotedStrings : p[1] = tok)[2]

ParseNumber(tok) == CHOOSE n \in 0..9 : ToString(n) = tok

\* The positions of the commas that separate the members of the outermost
\* object or array of `toks`.
RECURSIVE Commas(_, _, _, _)
Commas(toks, i, depth, acc) ==
    IF i > Len(toks) THEN acc
    ELSE Commas(toks, i + 1,
                depth + (IF toks[i] \in {"[", "{"} THEN 1
                         ELSE IF toks[i] \in {"]", "}"} THEN -1 ELSE 0),
                IF depth = 1 /\ toks[i] = "," THEN Append(acc, i) ELSE acc)

\* The members of the outermost object or array, nested ones kept whole.
Members(toks) ==
    IF Len(toks) <= 2 THEN << >>
    ELSE LET cuts == << 1 >> \o Commas(toks, 1, 0, << >>) \o << Len(toks) >>
         IN  [k \in 1..(Len(cuts) - 1) |-> SubSeq(toks, cuts[k] + 1, cuts[k + 1] - 1)]

\* The keys of a JSON object, in the order they are written.
ParsedKeys(toks) ==
    LET ms == Members(toks)
    IN  [i \in 1..Len(ms) |-> Unquote(ms[i][1])]

\* The lexemes of the value written under `key`.
ParsedValue(toks, key) ==
    LET ms == Members(toks)
        i  == CHOOSE j \in 1..Len(ms) : ms[j][1] = Quote(key)
    IN  SubSeq(ms[i], 3, Len(ms[i]))

ParsedString(toks, key) == Unquote(ParsedValue(toks, key)[1])

ParsedArray(toks, key) ==
    LET ms == Members(ParsedValue(toks, key))
    IN  [i \in 1..Len(ms) |-> ParseNumber(ms[i][1])]

ParsedObject(toks, key) ==
    LET ms == Members(ParsedValue(toks, key))
    IN  [i \in 1..Len(ms) |-> << Unquote(ms[i][1]), ParseNumber(ms[i][3]) >>]

IsArrayValue(toks, key) == Head(ParsedValue(toks, key)) = "["

IsObjectValue(toks, key) == Head(ParsedValue(toks, key)) = "{"

IsStringValue(toks, key) ==
    /\ Len(ParsedValue(toks, key)) = 1
    /\ \E p \in QuotedStrings : p[1] = ParsedValue(toks, key)[1]

\* The messages publish can build, and what a consumer reads in each of them
\* under "id" and "task" (the parse of each message, done once).
WireMessages ==
    LET argsOf(a)   == IF a.t = "array" THEN {a, Pushed(a)} ELSE {a}
        kwargsOf(k) == IF k.t = "object" THEN {k, WithKey(k)} ELSE {k}
        inputs == UNION {argsOf(in[1]) \X kwargsOf(in[2]) : in \in CallInputs}
        built  == {createTaskMessage(id, name, in[1], in[2]) :
                      id \in Ids, name \in TaskNames, in \in inputs}
    IN  {b.value : b \in {x \in built : ~x.threw}}

MessageId == [m \in WireMessages |-> ParsedString(m, "id")]

MessageTask == [m \in WireMessages |-> ParsedString(m, "task")]

MessageArgs == [m \in WireMessages |-> ParsedArray(m, "args")]

MessageKwargs == [m \in WireMessages |-> ParsedObject(m, "kwargs")]

CallIds == 1..Len(calls)

LogIds == 1..Len(brokerLog)

\* The calls whose reaction is still registered or queued.
Pending(c) == pc[c].at \in {"waiting", "queued"}

(***************************************************************************)
(* The Client under the scheduling the run time guarantees while the event *)
(* loop runs: a queued reaction is run, and the host makes its pass over   *)
(* the rejected promises without a handler.  Once the host ends the        *)
(* process neither is possible.  Readiness, timeouts, the Broker's         *)
(* completions and the application's own failures, an uncaught exception   *)
(* among them, are the environment's and are not forced.                   *)
(***************************************************************************)
SpecFair ==
    /\ Spec
    /\ WF_vars(RunReaction \/ RunReactionThrows)
    /\ WF_vars(BeginRejectionPass)
    /\ WF_vars(SettleRejection)
    /\ WF_vars(SettleAllRejections)
    /\ WF_vars(RaiseRejection)

(***************************************************************************)
(* Properties                                                              *)
(***************************************************************************)

\* C1: the Broker has received nothing while the gate is NOT_READY, and every
\* message it has received belongs to a call whose readiness wait resolved
\* and whose reaction has run.
C1_NoPublishBeforeReady ==
    /\ ~ready => brokerLog = << >>
    /\ \A i \in LogIds :
          /\ brokerLog[i].call \in CallIds
          /\ \/ pc[brokerLog[i].call].at \in {"sent", "delivered"}
             \/ /\ pc[brokerLog[i].call].at \in {"rejected", "reported", "ignored"}
                /\ pc[brokerLog[i].call].err = "TransportError"

\* A call made while NOT_READY has had its message handed over after the
\* readiness event.
C1_Witness ==
    /\ ready
    /\ \E i \in LogIds : ~calls[brokerLog[i].call].readyAtCall

\* C2: messages are handed to the Broker in the order their calls generated
\* their ids, and once a call's message has been handed over no earlier call
\* is still waiting or queued.
C2_OrderPreserved ==
    /\ \A i, j \in LogIds :
          i < j => brokerLog[i].call < brokerLog[j].call
    /\ \A a, b \in CallIds :
          (a < b /\ \E i \in LogIds : brokerLog[i].call = b) => ~Pending(a)

\* Two messages handed over, the first call made before readiness and the
\* second after it.
C2_Witness ==
    /\ Len(brokerLog) >= 2
    /\ ~calls[brokerLog[1].call].readyAtCall
    /\ calls[brokerLog[2].call].readyAtCall

\* C3: the id and the task written in a call's message, while it waits and
\* when it is handed to the Broker, are the taskId of the AsyncResult that
\* call returned and the name of the Task published; every id in the Broker's
\* log was returned to a caller.
C3_Correlation ==
    /\ \A c \in CallIds :
          calls[c].returned => calls[c].result.taskId = calls[c].taskId
    /\ \A i \in LogIds :
          LET e == brokerLog[i]
          IN  /\ calls[e.call].returned
              /\ MessageId[e.message] = calls[e.call].result.taskId
              /\ MessageTask[e.message] = calls[e.call].task
    /\ \A i \in 1..Len(waiters) :
          /\ MessageId[waiters[i].message] = calls[waiters[i].call].result.taskId
          /\ MessageTask[waiters[i].message] = calls[waiters[i].call].task
    /\ \A i \in 1..Len(microtasks) :
          /\ MessageId[microtasks[i].message]
                = calls[microtasks[i].call].result.taskId
          /\ MessageTask[microtasks[i].message] = calls[microtasks[i].call].task
    /\ \A i \in LogIds :
          \E c \in CallIds :
             /\ calls[c].returned
             /\ calls[c].result.taskId = MessageId[brokerLog[i].message]

\* Two messages of differently named tasks are in the Broker's log.
C3_Witness ==
    \E i, j \in LogIds :
       /\ calls[brokerLog[i].call].task = "tasks.add"
       /\ calls[brokerLog[j].call].task = ""

\* C4: every publish or delay call returns its AsyncResult in the step in
\* which it is made.
C4_EveryCallReturnsAtOnce ==
    [][\A c \in 1..Len(calls') : c > Len(calls) => calls'[c].returned]_vars

\* What of C4 the code keeps: a call is over in the step in which it is made,
\* whatever the gate and the Broker do, with the AsyncResult returned unless
\* createTaskMessage threw.
C4_NeverBlocks ==
    \A c \in CallIds :
       /\ calls[c].returned \/ calls[c].thrown # "none"
       /\ calls[c].returned <=> Serializable(calls[c].args)
       /\ calls[c].returned => calls[c].result = AsyncResult(calls[c].taskId, Backend)

\* A failure of call c has reached the host's channel.
C5_Reported(c) == \E i \in 1..Len(unhandled) : unhandled[i].call = c

\* A failure comes after publish returned its AsyncResult, never through its
\* return value, and is never reported twice or as another error.
C5_Safety ==
    /\ \A c \in CallIds :
          /\ pc[c].err # "none" =>
                /\ calls[c].returned
                /\ calls[c].thrown = "none"
                /\ pc[c].at \in {"rejected", "reported", "ignored"}
          /\ pc[c].at = "reported" <=> C5_Reported(c)
    /\ \A i, j \in 1..Len(unhandled) :
          /\ unhandled[i].err = pc[unhandled[i].call].err
          /\ unhandled[i].call = unhandled[j].call => i = j

C5_HeldByHost ==
    \A c \in CallIds :
       Cardinality({i \in 1..Len(rejections) : rejections[i] = c})
          = (IF pc[c].at = "rejected" THEN 1 ELSE 0)

\* What the host makes of the failures: it drops one only in mode "none",
\* where it reports none; in mode "throw" it reports one at most, ending the
\* process.
C5_HostOutcome ==
    /\ \A c \in CallIds : pc[c].at = "ignored" => hostMode = "none"
    /\ hostMode = "none" => unhandled = << >>
    /\ hostMode = "throw" => (Len(unhandled) <= 1 /\ (unhandled # << >> => ending))

C6_EncodingErrorAsync ==
    \A c \in CallIds :
       ~Serializable(calls[c].args) =>
          calls[c].returned /\ calls[c].thrown = "none"

\* C7: no call for a Task with an empty name returns an AsyncResult, and no
\* message with an empty task field is handed to the Broker.
C7_EmptyNameRejected ==
    /\ \A c \in CallIds : calls[c].returned => calls[c].task # ""
    /\ \A i \in LogIds : MessageTask[brokerLog[i].message] # ""

\* C8: every message is handed to the Broker on the routing key "celery".
C8_RoutingKeyCelery ==
    \A i \in LogIds : brokerLog[i].routingKey = "celery"

\* Messages of two calls that differ in task name and in arguments are in the
\* Broker's log.
C8_Witness ==
    \E i, j \in LogIds :
       /\ calls[brokerLog[i].call].task # calls[brokerLog[j].call].task
       /\ calls[brokerLog[i].call].args # calls[brokerLog[j].call].args

\* C9: no two calls generate the same id, no two returned AsyncResults share
\* a taskId, and no two messages in the Broker's log carry the same id.
C9_IdsNeverReused ==
    /\ \A a, b \in CallIds : a # b => calls[a].taskId # calls[b].taskId
    /\ \A a, b \in CallIds :
          (a # b /\ calls[a].returned /\ calls[b].returned)
             => calls[a].result.taskId # calls[b].result.taskId
    /\ \A i, j \in LogIds :
          i # j => MessageId[brokerLog[i].message]
                      # MessageId[brokerLog[j].message]

\* Every allowed call was made and returned, and its message handed over.
C9_Witness ==
    /\ Len(brokerLog) = MaxCalls
    /\ \A c \in CallIds : calls[c].returned

\* C10: the message createTaskMessage builds, read back, has the keys id,
\* task, args, kwargs in this order; id and task are the inputs, args is the
\* given array or [] when omitted, kwargs the given object or {} when
\* omitted; and a message is built for every serializable input.
C10_MessageShape ==
    codecOut.called =>
       /\ codecOut.threw <=> (~Serializable(codecIn[3]) \/ ~Serializable(codecIn[4]))
       /\ ~codecOut.threw =>
             LET m == codecOut.value
             IN  /\ ParsedKeys(m) = << "id", "task", "args", "kwargs" >>
                 /\ IsStringValue(m, "id")
                 /\ ParsedString(m, "id") = codecIn[1]
                 /\ IsStringValue(m, "task")
                 /\ ParsedString(m, "task") = codecIn[2]
                 /\ IsArrayValue(m, "args")
                 /\ ParsedArray(m, "args")
                       = (IF codecIn[3].t = "undefined" THEN << >> ELSE codecIn[3].items)
                 /\ IsObjectValue(m, "kwargs")
                 /\ ParsedObject(m, "kwargs")
                       = (IF codecIn[4].t = "undefined" THEN << >> ELSE codecIn[4].entries)

\* A message was built with args and kwargs both omitted.
C10_Witness ==
    /\ codecOut.called
    /\ ~codecOut.threw
    /\ codecIn[3].t = "undefined"
    /\ codecIn[4].t = "undefined"

\* How often the reaction of call c stands in a queue of reactions.
Occurrences(jobs, c) == Cardinality({i \in 1..Len(jobs) : jobs[i].call = c})

\* How often the message of call c has been handed to the Broker.
Submissions(c) == Cardinality({i \in LogIds : brokerLog[i].call = c})

\* C11: the gate never goes back to NOT_READY; at readiness all registered
\* waiters are resolved together, in order, each once; after readiness no
\* reaction is left or put waiting: a publish made then is queued at once.
C11_GateState ==
    /\ ready => (waiters = << >> /\ \A c \in CallIds : pc[c].at # "waiting")
    /\ \A c \in CallIds :
          /\ Occurrences(waiters, c) = (IF pc[c].at = "waiting" THEN 1 ELSE 0)
          /\ Occurrences(microtasks, c) = (IF pc[c].at = "queued" THEN 1 ELSE 0)
          /\ (Pending(c) \/ pc[c].at = "threw") => Submissions(c) = 0

C11_GateStep ==
    /\ ready => ready'
    /\ (~ready /\ ready') => (microtasks' = microtasks \o waiters /\ waiters' = << >>)
    /\ \A c \in 1..Len(calls') :
          (c > Len(calls) /\ ready /\ calls'[c].returned) => pc'[c].at = "queued"

C11_OneWayGate == []C11_GateState /\ [][C11_GateStep]_vars

\* Every allowed call registered while NOT_READY, and all were queued
\* together by the readiness event.
C11_Witness ==
    /\ ready
    /\ Len(microtasks) = MaxCalls
    /\ \A c \in CallIds : ~calls[c].readyAtCall

\* createTask(name) followed by delay(args, kwargs) on the Task it returned:
\* createTask leaves the Task allocated, Task.delay finds it and publishes.
CreateTaskThenDelay(name, args, kwargs) ==
    LET task      == Task(name)
        allocated == tasks \cup {task}
    IN  /\ task \in allocated
        /\ publish(task, args, kwargs)
        /\ tasks' = allocated

\* C12: a step of Client.delay(name, args, kwargs) is a step of
\* createTask(name).delay(args, kwargs) from the same state, and conversely:
\* one id generated, one call answered, the same message registered or queued
\* under the same gate state.
C12_DelayStep ==
    \A name \in TaskNames, in \in CallInputs :
       /\ delay(name, in[1], in[2]) <=> CreateTaskThenDelay(name, in[1], in[2])
       /\ delay(name, in[1], in[2]) =>
             /\ idCounter' = idCounter + 1
             /\ Len(calls') = Len(calls) + 1
             /\ calls'[Len(calls')].kwargs = in[2]
             /\ Len(waiters') + Len(microtasks')
                   = Len(waiters) + Len(microtasks)
                        + (IF calls'[Len(calls')].returned THEN 1 ELSE 0)
             /\ brokerLog' = brokerLog

C12_DelayEquivalence == [][C12_DelayStep]_vars

\* A call with keyword arguments has had its message handed to the Broker,
\* its Task allocated.
C12_Witness ==
    \E c \in CallIds :
       /\ calls[c].kwargs = Obj(<< <<"x", 1>> >>)
       /\ Task(calls[c].task) \in tasks
       /\ Submissions(c) = 1

\* C13: createTask can be called with any name in any state, and a step that allocates a Task without a publish call changes
\* nothing else: no id, no waiter, no queued reaction, nothing at the
\* Broker, the gate as it was.
C13_CreateTaskStep ==
    (tasks' # tasks /\ Len(calls') = Len(calls)) =>
       /\ \E name \in TaskNames : tasks' = tasks \cup {Task(name)}
       /\ UNCHANGED << ready, idCounter, calls, pc, waiters, microtasks,
                       brokerLog, unhandled, rejections, ending, passLeft,
                       heap >>

C13_CreateTaskFrame ==
    /\ [](\A name \in TaskNames : ENABLED createTask(name))
    /\ [][C13_CreateTaskStep]_vars

\* A Task no call was made for is allocated, the empty-named one too, while a
\* reaction waits for readiness.
C13_Witness ==
    /\ \E t \in tasks : \A c \in CallIds : calls[c].task # t.name
    /\ Task("") \in tasks
    /\ waiters # << >>

C14_OnlyTimeoutsExcluded ==
    (ready /\ ending) =>
       \A c \in CallIds :
          (calls[c].returned /\ pc[c].err # "NotReadyTimeout") => ~Pending(c)

\* Once readiness is reached and the queued reactions have run, every call
\* that returned an AsyncResult and whose readiness wait was not rejected
\* has had its message handed over, once.
C14_SubmittedOnceDrained ==
    (ready /\ microtasks = << >>) =>
       \A c \in CallIds :
          (calls[c].returned /\ pc[c].err # "NotReadyTimeout") =>
             Submissions(c) = 1

\* C14, amended: no message is handed to the Broker twice, and none for a
\* call that returned nothing or whose readiness wait was rejected; once
\* readiness is reached, every call that returned an AsyncResult and whose
\* wait was not rejected has its message handed over, once, by the time
\* the reaction queue has drained, and the queue is drained unless the
\* process ends first; nothing is handed over while the process ends, so
\* a call whose reaction is queued then, made before or meanwhile, keeps
\* its AsyncResult and its message is never handed over.
C14_NoDuplicate ==
    \A c \in CallIds :
       /\ Submissions(c) <= 1
       /\ Submissions(c) = 1 => calls[c].returned
       /\ pc[c].err = "NotReadyTimeout" => Submissions(c) = 0

C15_BodyOf(message, c) ==
    /\ MessageTask[message] = calls[c].task
    /\ MessageArgs[message]
          = (IF calls[c].args.t = "undefined" THEN << >> ELSE calls[c].args.items)
    /\ MessageKwargs[message]
          = (IF calls[c].kwargs.t = "undefined" THEN << >> ELSE calls[c].kwargs.entries)

\* C15: the message of a call, while its reaction waits or is queued and when
\* it is handed to the Broker, carries the task name, args and kwargs of the
\* time of the call, whatever the caller has done to args and kwargs since.
C15_BodyFixedAtPublish ==
    /\ \A i \in 1..Len(waiters) : C15_BodyOf(waiters[i].message, waiters[i].call)
    /\ \A i \in 1..Len(microtasks) :
          C15_BodyOf(microtasks[i].message, microtasks[i].call)
    /\ \A i \in LogIds : C15_BodyOf(brokerLog[i].message, brokerLog[i].call)

\* A message was handed over for a call made before readiness whose args and
\* kwargs the caller changed in between.
C15_Witness ==
    \E i \in LogIds :
       LET c == brokerLog[i].call
       IN  /\ ~calls[c].readyAtCall
           /\ calls[c].args.t = "array"
           /\ calls[c].kwargs.t = "object"
           /\ heap[c].args = Pushed(calls[c].args)
           /\ heap[c].kwargs = WithKey(calls[c].kwargs)

C16_Step ==
    /\ \A c \in CallIds : calls'[c] = calls[c]
    /\ \A c \in CallIds :
          (pc[c].err = "none" /\ pc'[c].err = "TransportError") =>
             /\ \A d \in CallIds \ {c} : pc'[d] = pc[d]
             /\ waiters' = waiters
             /\ microtasks' = SelectSeq(microtasks, LAMBDA j : j.call # c)

\* The host's report of a failure ends the process only in mode "throw",
\* and only when no reaction is queued: no publish pending at the report is
\* cut off by it.
C16_ReportStep ==
    (~ending /\ unhandled' # unhandled) =>
       /\ ending' <=> hostMode = "throw"
       /\ ending' => microtasks = << >>

====
